---- MODULE Spec2Model ----
(***************************************************************************)
(* A model of static/converter/stophandler.py: the StopHandler registry    *)
(* (load_group, get_id, use, zone_set, export) and the helpers it calls.   *)
(*                                                                         *)
(* Python values are represented as follows.                               *)
(*   str    a sequence of one-character strings ("4900" is                 *)
(*          <<"4","9","0","0">>), so that slicing and indexing are real    *)
(*   None   the one-element sequence <<"None">>                            *)
(*   float  a reduced fraction <<numerator, denominator>>                  *)
(*   dict   a function; dict.get is Get, d[k] = v is Put                   *)
(*   list   a sequence (Python index i is TLA+ index i + 1)                *)
(*   bool   BOOLEAN                                                        *)
(* self.data is an insertion-ordered dict: its keys, in insertion order,   *)
(* are kept in data_keys beside the function data.                         *)
(***************************************************************************)
EXTENDS Integers, Sequences, FiniteSets, TLC

VARIABLES
    data,           \* self.data: stop_id -> stop record
    data_keys,      \* the keys of self.data in insertion order
    parents,        \* self.parents: platform id -> hub id
    zones,          \* self.zones: group key -> zone label
    invalid,        \* self.invalid: stake id -> ZTMStop
    change,         \* self.change: stake id -> stop id or None
    used_invalid,   \* self.used_invalid
    used,           \* self.used
    missing_stops,  \* self.missing_stops (external, fetched at construction)
    rail_platforms, \* self.rail_platforms (external, fetched at construction)
    names,          \* self.names: group id -> display name
    feed,           \* the caller's parsed input: the groups it may load
    call,           \* the most recent call: its arguments and all it produced
    zone_conflicts, \* logger: zone-conflict warnings received, per group key
    lru_cache,      \* functools.lru_cache: memoized function -> its cached result
    http,           \* requests.get: per memoized function, requests sent and answered
    instances       \* the number of StopHandler objects constructed so far

vars == <<data, data_keys, parents, zones, invalid, change, used_invalid, used,
          missing_stops, rail_platforms, names, feed, call, zone_conflicts,
          lru_cache, http, instances>>

-----------------------------------------------------------------------------
(* Python primitives *)

None == <<"None">>

EmptyDict == [k \in {} |-> None]

Get(d, k, default) == IF k \in DOMAIN d THEN d[k] ELSE default

Put(d, k, v) == [x \in (DOMAIN d) \cup {k} |-> IF x = k THEN v ELSE d[x]]

\* Truth value of an Optional[str], Optional[tuple] or Optional[dict]
Truthy(v) == v # None /\ v # <<>>

\* s[lo:hi] (0 <= lo <= hi), which stops at the end of s
Slice(s, lo, hi) == SubSeq(s, lo + 1, IF Len(s) < hi THEN Len(s) ELSE hi)

InSeq(x, s) == \E i \in 1..Len(s) : s[i] = x

RECURSIVE Gcd(_, _)
Gcd(a, b) == IF b = 0 THEN a ELSE Gcd(b, a % b)

\* The float n / d
Frac(n, d) == LET g == Gcd(IF n < 0 THEN -n ELSE n, d)
              IN  IF n = 0 THEN <<0, 1>> ELSE <<n \div g, d \div g>>

FAdd(a, b) == Frac(a[1] * b[2] + b[1] * a[2], a[2] * b[2])

FDivInt(a, n) == Frac(a[1], a[2] * n)

\* sum() of a list of floats; adding None to a number raises TypeError
RECURSIVE FSum(_)
FSum(s) ==
    IF s = <<>> THEN <<0, 1>>
    ELSE LET rest == FSum(Tail(s))
         IN  IF Head(s) = None \/ rest = <<"TypeError">> THEN <<"TypeError">>
             ELSE FAdd(Head(s), rest)

\* str.split(sep) for a one-character separator
RECURSIVE Split(_, _)
Split(s, sep) ==
    IF \A i \in 1..Len(s) : s[i] # sep THEN <<s>>
    ELSE LET p == CHOOSE i \in 1..Len(s) : s[i] = sep /\ \A j \in 1..(i - 1) : s[j] # sep
         IN  <<SubSeq(s, 1, p - 1)>> \o Split(SubSeq(s, p + 1, Len(s)), sep)

DigitVal(c) == CASE c = "0" -> 0 [] c = "1" -> 1 [] c = "2" -> 2 [] c = "3" -> 3
                 [] c = "4" -> 4 [] c = "5" -> 5 [] c = "6" -> 6 [] c = "7" -> 7
                 [] c = "8" -> 8 [] c = "9" -> 9

RECURSIVE DigitsVal(_)
DigitsVal(s) == IF s = <<>> THEN 0 ELSE 10 * DigitsVal(SubSeq(s, 1, Len(s) - 1)) + DigitVal(s[Len(s)])

\* float(s) for a string of decimal digits
ParseFloat(s) == Frac(DigitsVal(s), 1)

RECURSIVE Replace(_, _, _)
\* str.replace(old, new), old not empty
Replace(s, old, new) ==
    IF Len(s) < Len(old) THEN s
    ELSE IF SubSeq(s, 1, Len(old)) = old
         THEN new \o Replace(SubSeq(s, Len(old) + 1, Len(s)), old, new)
         ELSE <<s[1]>> \o Replace(Tail(s), old, new)

RECURSIVE RStrip(_)
RStrip(s) == IF s # <<>> /\ s[Len(s)] = " " THEN RStrip(SubSeq(s, 1, Len(s) - 1)) ELSE s

\* a in b, for strings
IsSubstr(a, b) == \E i \in 1..(Len(b) - Len(a) + 1) : SubSeq(b, i, i + Len(a) - 1) = a

LowerChar(c) ==
    CASE c = "A" -> "a" [] c = "B" -> "b" [] c = "C" -> "c" [] c = "D" -> "d"
      [] c = "E" -> "e" [] c = "F" -> "f" [] c = "G" -> "g" [] c = "H" -> "h"
      [] c = "I" -> "i" [] c = "J" -> "j" [] c = "K" -> "k" [] c = "L" -> "l"
      [] c = "M" -> "m" [] c = "N" -> "n" [] c = "O" -> "o" [] c = "P" -> "p"
      [] c = "Q" -> "q" [] c = "R" -> "r" [] c = "S" -> "s" [] c = "T" -> "t"
      [] c = "U" -> "u" [] c = "V" -> "v" [] c = "W" -> "w" [] c = "X" -> "x"
      [] c = "Y" -> "y" [] c = "Z" -> "z" [] OTHER -> c

Casefold(s) == [i \in 1..Len(s) |-> LowerChar(s[i])]

\* Code-point order of the characters stop ids are made of: digits, then "p"
CharOrd(c) == IF c = "p" THEN 64 ELSE DigitVal(c)

RECURSIVE StrLess(_, _)
StrLess(a, b) ==
    IF b = <<>> THEN FALSE
    ELSE IF a = <<>> THEN TRUE
    ELSE IF a[1] = b[1] THEN StrLess(Tail(a), Tail(b))
    ELSE CharOrd(a[1]) < CharOrd(b[1])

RECURSIVE Sorted(_)
\* sorted() of a set of strings
Sorted(S) ==
    IF S = {} THEN <<>>
    ELSE LET m == CHOOSE x \in S : \A y \in S \ {x} : StrLess(x, y)
         IN  <<m>> \o Sorted(S \ {m})

-----------------------------------------------------------------------------
(* Module-level functions *)

normalize_stop_name(name) ==
    RStrip(
    Replace(Replace(Replace(Replace(Replace(Replace(Replace(Replace(Replace(Replace(Replace(
        name,
        <<".">>, <<".", " ">>),
        <<"-">>, <<" ", "-", " ">>),
        <<" ", " ">>, <<" ">>),
        <<"a", "l", ".">>, <<"A", "l", ".">>),
        <<"p", "l", ".">>, <<"P", "l", ".">>),
        <<"o", "s", ".">>, <<"O", "s", ".">>),
        <<"k", "s", ".">>, <<"K", "s", ".">>),
        <<"A", "k", " ">>, <<"A", "K", " ">>),
        <<"C", "h", " ">>, <<"C", "H", " ">>),
        <<"g", "e", "n", ".">>, <<"G", "e", "n", ".">>),
        <<"r", "o", "n", "d", "o", " ">>, <<"R", "o", "n", "d", "o", " ">>))

should_town_be_added_to_name(group) ==
    LET dont_add_conditions == {
            group.town_code = <<"-", "-">>,
            Slice(group.id, 1, 3) \in {<<"9", "0">>, <<"9", "1">>, <<"9", "2">>},
            IsSubstr(<<"P", "K", "P">>, group.name),
            IsSubstr(<<"W", "K", "D">>, group.name),
            IsSubstr(Casefold(group.town), Casefold(group.name)),
            LET parts == Split(Casefold(group.town), " ")
            IN  \E i \in 1..Len(parts) : IsSubstr(parts[i], Casefold(group.name)) }
    IN  ~(TRUE \in dont_add_conditions)

\* The lats and lons of the stops whose lon is defined, summed and divided by
\* the number of all stops; a None lat among them makes sum() raise TypeError.
avg_position(stops) ==
    LET chosen == SelectSeq(stops, LAMBDA i : i.lon # None)
        lats   == [k \in 1..Len(chosen) |-> chosen[k].lat]
        lons   == [k \in 1..Len(chosen) |-> chosen[k].lon]
        count  == Len(stops)
    IN  IF count < 1 THEN None
        ELSE IF FSum(lats) = <<"TypeError">> THEN <<"TypeError">>
        ELSE <<FDivInt(FSum(lats), count), FDivInt(FSum(lons), count)>>

\* @lru_cache(maxsize=None) around a function without arguments: the body runs
\* unless a result is cached, and its result is cached only if it returns.
\* proc holds the cache and the request counters; response is what the server
\* answers if asked.
get_missing_stops_not_memoized(proc, response) ==
    LET sent == [proc EXCEPT !.http["get_missing_stops"].sent = @ + 1]
    IN  IF response.status # "200"
        THEN [sent EXCEPT !.exc = <<"HTTPError">>]
        ELSE [sent EXCEPT !.http["get_missing_stops"].ok = @ + 1,
                          !.lru_cache = Put(@, "get_missing_stops", response.json),
                          !.ret = response.json]

get_missing_stops(proc, response) ==
    IF "get_missing_stops" \in DOMAIN proc.lru_cache
    THEN [proc EXCEPT !.ret = proc.lru_cache["get_missing_stops"]]
    ELSE LET sent == [proc EXCEPT !.http["get_missing_stops"].sent = @ + 1]
         IN  IF response.status # "200"
             THEN [sent EXCEPT !.exc = <<"HTTPError">>]
             ELSE [sent EXCEPT !.http["get_missing_stops"].ok = @ + 1,
                               !.lru_cache = Put(@, "get_missing_stops", response.json),
                               !.ret = response.json]

get_rail_platforms(proc, response) ==
    IF "get_rail_platforms" \in DOMAIN proc.lru_cache
    THEN [proc EXCEPT !.ret = proc.lru_cache["get_rail_platforms"]]
    ELSE LET sent == [proc EXCEPT !.http["get_rail_platforms"].sent = @ + 1]
         IN  IF response.status # "200"
             THEN [sent EXCEPT !.exc = <<"HTTPError">>]
             ELSE [sent EXCEPT !.http["get_rail_platforms"].ok = @ + 1,
                               !.lru_cache = Put(@, "get_rail_platforms", response.json),
                               !.ret = response.json]

-----------------------------------------------------------------------------
(* StopHandler.  A method is an operator from the handler (a record `self` of *)
(* its attributes, with the call's return value, exception, log records and  *)
(* file writes) to the handler after the call.                                *)

\* Imported from ..const: the railway stations in service, the fixed names
ACTIVE_RAIL_STATIONS == {<<"4", "9", "0", "0">>, <<"4", "9", "1", "3">>, <<"3", "9", "0", "1">>}

PROPER_STOP_NAMES == (<<"1", "3", "0", "1">> :> <<"A", "l", ".", " ", "X">>)

BOUNDARY == <<"1", "/", "2">>

\* Returns the handler and the process-wide cache after the call; an exception
\* of a fetch is left in proc.exc
_load_external(self, proc, missing_response, rail_response) ==
    LET m == get_missing_stops(proc, missing_response)
        r == get_rail_platforms(m, rail_response)
    IN  IF m.exc # None THEN [self |-> self, proc |-> m]
        ELSE IF r.exc # None
        THEN [self |-> [self EXCEPT !.missing_stops = m.ret], proc |-> r]
        ELSE [self |-> [self EXCEPT !.missing_stops = m.ret, !.rail_platforms = r.ret],
              proc |-> r]

__init__(proc, missing_response, rail_response) ==
    _load_external(
        [data |-> EmptyDict, data_keys |-> <<>>, parents |-> EmptyDict, zones |-> EmptyDict,
         invalid |-> EmptyDict, change |-> EmptyDict, used_invalid |-> {}, used |-> {},
         missing_stops |-> EmptyDict, rail_platforms |-> EmptyDict,
         names |-> PROPER_STOP_NAMES,
         ret |-> None, exc |-> None, log |-> <<>>, files |-> EmptyDict],
        proc, missing_response, rail_response)

PutData(self, k, v) ==
    [self EXCEPT !.data = Put(@, k, v),
                 !.data_keys = IF k \in DOMAIN self.data THEN @ ELSE Append(@, k)]

Warn(self, record) == [self EXCEPT !.log = Append(@, record)]

\* [i.id for i in kept], kept being the stakes a comprehension's condition keeps
IdsOf(kept) == [k \in 1..Len(kept) |-> kept[k].id]

\* A stake with the same code is preferred to one at the same position
_match_virtual_code_first(virt, stakes) ==
    LET with_same_pos ==
            IF virt.lat # None /\ virt.lon # None
            THEN IdsOf(SelectSeq(stakes, LAMBDA i : i.code[1] # "8"
                                             /\ i.lat = virt.lat /\ i.lon = virt.lon))
            ELSE <<>>
        with_same_code ==
            IdsOf(SelectSeq(stakes, LAMBDA i : i.code[1] # "8" /\ i.code[2] = virt.code[2]))
    IN  IF virt.id = <<"6", "0", "5", "9", "8", "8">> /\ InSeq(<<"6", "0", "5", "9", "2", "8">>, with_same_code) THEN <<"6", "0", "5", "9", "2", "8">>
        ELSE IF with_same_code # <<>> THEN with_same_code[1]
        ELSE IF with_same_pos # <<>> THEN with_same_pos[1]
        ELSE None

\* Virtual stakes are candidates too: the code[0] != "8" filter is missing
_match_virtual_among_all_stakes(virt, stakes) ==
    LET with_same_pos ==
            IF virt.lat # None /\ virt.lon # None
            THEN IdsOf(SelectSeq(stakes, LAMBDA i : i.lat = virt.lat /\ i.lon = virt.lon))
            ELSE <<>>
        with_same_code ==
            IdsOf(SelectSeq(stakes, LAMBDA i : i.code[2] = virt.code[2]))
    IN  IF virt.id = <<"6", "0", "5", "9", "8", "8">> /\ InSeq(<<"6", "0", "5", "9", "2", "8">>, with_same_code) THEN <<"6", "0", "5", "9", "2", "8">>
        ELSE IF with_same_pos # <<>> THEN with_same_pos[1]
        ELSE IF with_same_code # <<>> THEN with_same_code[1]
        ELSE None

_match_virtual(virt, stakes) ==
    LET with_same_pos ==
            IF virt.lat # None /\ virt.lon # None
            THEN IdsOf(SelectSeq(stakes, LAMBDA i : i.code[1] # "8"
                                             /\ i.lat = virt.lat /\ i.lon = virt.lon))
            ELSE <<>>
        with_same_code ==
            IdsOf(SelectSeq(stakes, LAMBDA i : i.code[1] # "8" /\ i.code[2] = virt.code[2]))
    IN  IF virt.id = <<"6", "0", "5", "9", "8", "8">> /\ InSeq(<<"6", "0", "5", "9", "2", "8">>, with_same_code) THEN <<"6", "0", "5", "9", "2", "8">>
        ELSE IF with_same_pos # <<>> THEN with_same_pos[1]
        ELSE IF with_same_code # <<>> THEN with_same_code[1]
        ELSE None

_find_missing_positions(self, stops) ==
    [idx \in 1..Len(stops) |->
        LET stop == stops[idx]
            missing_pos == Get(self.missing_stops, stop.id, None)
        IN  IF (stop.lat = None \/ stop.lon = None) /\ Truthy(missing_pos)
            THEN [stop EXCEPT !.lat = missing_pos[1], !.lon = missing_pos[2]]
            ELSE stop]

RECURSIVE _load_normal_group_from(_, _, _, _)
\* The loop of _load_normal_group from its n-th iteration on
_load_normal_group_from(self, group_name, stops, n) ==
    IF n > Len(stops) THEN self
    ELSE LET stop == stops[n]
             change_to == _match_virtual(stop, stops)
             after ==
                 IF stop.code[1] = "8"
                 THEN IF change_to # None
                      THEN [self EXCEPT !.change = Put(@, stop.id, change_to)]
                      ELSE [self EXCEPT !.invalid = Put(@, stop.id, stop)]
                 ELSE IF stop.lat = None \/ stop.lon = None
                 THEN [self EXCEPT !.invalid = Put(@, stop.id, stop)]
                 ELSE PutData(self, stop.id,
                              [stop_id |-> stop.id,
                               stop_name |-> group_name \o <<" ">> \o stop.code,
                               stop_lat |-> stop.lat,
                               stop_lon |-> stop.lon,
                               wheelchair_boarding |-> stop.wheelchair])
         IN  _load_normal_group_from(after, group_name, stops, n + 1)

\* A virtual stake is marked invalid even when a match was found for it
_load_normal_group_invalidates_aliased(self, group_name, stops) ==
    LET done     == _load_normal_group_from(self, group_name, stops, 1)
        virtuals == SelectSeq(stops, LAMBDA i : i.code[1] = "8")
    IN  [done EXCEPT !.invalid =
            [x \in (DOMAIN @) \cup {virtuals[k].id : k \in 1..Len(virtuals)} |->
                IF x \in DOMAIN @ THEN @[x]
                ELSE virtuals[CHOOSE k \in 1..Len(virtuals) : virtuals[k].id = x]]]

_load_normal_group(self, group_name, stops) ==
    _load_normal_group_from(self, group_name, stops, 1)

\* for i in virt_stops: self.change[i.id] = target
AliasAll(self, virt_stops, target) ==
    [self EXCEPT !.change =
        [x \in (DOMAIN @) \cup {virt_stops[k].id : k \in 1..Len(virt_stops)} |->
            IF \E k \in 1..Len(virt_stops) : virt_stops[k].id = x THEN target ELSE @[x]]]

\* A platform is entered in self.data but not in self.parents
AddPlatform_forgets_parent(self, group_id, group_name, station_data, n) ==
    LET platform_id   == station_data.platforms[n][1]
        platform_pos  == Split(station_data.platforms[n][2], ",")
    IN  PutData(self, platform_id,
            [stop_id |-> platform_id,
             stop_name |-> group_name \o <<" ", "p", "e", "r", "o", "n", " ">> \o Split(platform_id, "p")[2],
             stop_lat |-> ParseFloat(platform_pos[1]),
             stop_lon |-> ParseFloat(platform_pos[2]),
             location_type |-> <<"0">>,
             parent_station |-> group_id,
             zone_id |-> Get(station_data, "zone_id", <<>>),
             stop_IBNR |-> Get(station_data, "ibnr_code", <<>>),
             stop_PKPPLK |-> Get(station_data, "pkpplk_code", <<>>),
             wheelchair_boarding |-> Get(station_data, "wheelchair", <<"0">>)])

\* One iteration of the loop over station_data["platforms"].items(): its n-th item
AddPlatform(self, group_id, group_name, station_data, n) ==
    LET platform_id   == station_data.platforms[n][1]
        platform_pos  == Split(station_data.platforms[n][2], ",")
        platform_lat  == ParseFloat(platform_pos[1])
        platform_lon  == ParseFloat(platform_pos[2])
        platform_code == Split(platform_id, "p")[2]
        platform_name == group_name \o <<" ", "p", "e", "r", "o", "n", " ">> \o platform_code
        added == PutData(self, platform_id,
                    [stop_id |-> platform_id,
                     stop_name |-> platform_name,
                     stop_lat |-> platform_lat,
                     stop_lon |-> platform_lon,
                     location_type |-> <<"0">>,
                     parent_station |-> group_id,
                     zone_id |-> Get(station_data, "zone_id", <<>>),
                     stop_IBNR |-> Get(station_data, "ibnr_code", <<>>),
                     stop_PKPPLK |-> Get(station_data, "pkpplk_code", <<>>),
                     wheelchair_boarding |-> Get(station_data, "wheelchair", <<"0">>)])
    IN  [added EXCEPT !.parents = Put(@, platform_id, group_id)]

RECURSIVE AddPlatforms(_, _, _, _, _)
\* The loop over station_data["platforms"].items() from its n-th item on
AddPlatforms(self, group_id, group_name, station_data, n) ==
    IF n > Len(station_data.platforms) THEN self
    ELSE AddPlatforms(AddPlatform(self, group_id, group_name, station_data, n),
                      group_id, group_name, station_data, n + 1)

RECURSIVE MapStopsToPlatforms_unknown_to_hub(_, _, _, _, _)
\* A stake without a platform is aliased to the hub and nothing is logged
MapStopsToPlatforms_unknown_to_hub(self, group_name, station_data, virt_stops, n) ==
    IF n > Len(virt_stops) THEN self
    ELSE LET stop == virt_stops[n]
             after ==
                 IF stop.id \in DOMAIN station_data.stops
                 THEN [self EXCEPT !.change = Put(@, stop.id, station_data.stops[stop.id])]
                 ELSE [self EXCEPT !.change = Put(@, stop.id, Slice(stop.id, 0, 4))]
         IN  MapStopsToPlatforms_unknown_to_hub(after, group_name, station_data, virt_stops, n + 1)

RECURSIVE MapStopsToPlatforms(_, _, _, _, _)
\* The loop "Stops -> Platforms" from its n-th iteration on
MapStopsToPlatforms(self, group_name, station_data, virt_stops, n) ==
    IF n > Len(virt_stops) THEN self
    ELSE LET stop == virt_stops[n]
             after ==
                 IF stop.id \in DOMAIN station_data.stops
                 THEN [self EXCEPT !.change = Put(@, stop.id, station_data.stops[stop.id])]
                 ELSE IF stop.id \notin {<<"4", "9", "1", "3", "0", "3">>, <<"4", "9", "1", "3", "0", "4">>}
                 THEN Warn(self, [msg |-> "No platform defined for railway PR entry",
                                  group_name |-> group_name, id |-> stop.id])
                 ELSE self
         IN  MapStopsToPlatforms(after, group_name, station_data, virt_stops, n + 1)

\* _load_railway_group past its allowlist check
LoadActiveStation(self, group_id, group_name_arg, virt_stops) ==
    LET station_data == Get(self.rail_platforms, group_id, EmptyDict)
        no_data      == DOMAIN station_data = {}
        avg_pos      == avg_position(virt_stops)
        pos          == Split(station_data.pos, ",")
        station_lat  == IF no_data THEN avg_pos[1] ELSE ParseFloat(pos[1])
        station_lon  == IF no_data THEN avg_pos[2] ELSE ParseFloat(pos[2])
        group_name   == IF no_data THEN group_name_arg ELSE station_data.name
    IN  IF no_data /\ avg_pos = <<"TypeError">> THEN [self EXCEPT !.exc = <<"TypeError">>]
        ELSE IF no_data /\ ~Truthy(avg_pos) THEN AliasAll(self, virt_stops, None)
        ELSE IF no_data \/ station_data.oneplatform
        THEN AliasAll(
                PutData(self, group_id,
                    [stop_id |-> group_id,
                     stop_name |-> group_name,
                     stop_lat |-> station_lat,
                     stop_lon |-> station_lon,
                     zone_id |-> Get(station_data, "zone_id", <<>>),
                     stop_IBNR |-> Get(station_data, "ibnr_code", <<>>),
                     stop_PKPPLK |-> Get(station_data, "pkpplk_code", <<>>),
                     wheelchair_boarding |-> Get(station_data, "wheelchair", <<"0">>)]),
                virt_stops, group_id)
        ELSE MapStopsToPlatforms(
                AddPlatforms(
                    PutData(self, group_id,
                        [stop_id |-> group_id,
                         stop_name |-> group_name,
                         stop_lat |-> station_lat,
                         stop_lon |-> station_lon,
                         location_type |-> <<"1">>,
                         parent_station |-> <<>>,
                         zone_id |-> Get(station_data, "zone_id", <<>>),
                         stop_IBNR |-> Get(station_data, "ibnr_code", <<>>),
                         stop_PKPPLK |-> Get(station_data, "pkpplk_code", <<>>),
                         wheelchair_boarding |-> Get(station_data, "wheelchair", <<"0">>)]),
                    group_id, group_name, station_data, 1),
                group_name, station_data, virt_stops, 1)

\* The allowlist is not consulted
_load_railway_group_ignores_allowlist(self, group_id, group_name, virt_stops) ==
    LoadActiveStation(self, group_id, group_name, virt_stops)

_load_railway_group(self, group_id, group_name, virt_stops) ==
    IF group_id \notin ACTIVE_RAIL_STATIONS THEN AliasAll(self, virt_stops, None)
    ELSE LoadActiveStation(self, group_id, group_name, virt_stops)

\* Returns the handler after the call together with the caller's group and
\* stops, both of which the call changes in place.
load_group(self, group_arg, stops_arg) ==
    LET town       == IF group_arg.town = <<"K", "a", "m", "p", "i", "n", "o", "s", "k", "i", " ", "P", "n">> THEN <<"K", "a", "m", "p", "i", "n", "o", "s", "k", "i", " ", "P", "N">> ELSE group_arg.town
        normalized == normalize_stop_name(group_arg.name)
        fixed_name == Get(self.names, group_arg.id, None)
        group1     == [group_arg EXCEPT !.town = town, !.name = normalized]
        name       == IF Truthy(fixed_name) THEN fixed_name
                      ELSE IF should_town_be_added_to_name(group1)
                      THEN town \o <<" ">> \o normalized
                      ELSE normalized
        group      == [group1 EXCEPT !.name = name]
        self1      == IF Truthy(fixed_name) THEN self
                      ELSE [self EXCEPT !.names = Put(@, group.id, name)]
        stops      == _find_missing_positions(self1, stops_arg)
    IN  [self  |-> IF Slice(group.id, 1, 3) \in {<<"9", "0">>, <<"9", "1">>, <<"9", "2">>}
                   THEN _load_railway_group(self1, group.id, group.name, stops)
                   ELSE _load_normal_group(self1, group.name, stops),
         group |-> group,
         stops |-> stops]

\* The alias target is returned without looking it up in self.invalid
get_id_skips_invalid(self, original_id) ==
    IF original_id = None THEN [self EXCEPT !.ret = None]
    ELSE [self EXCEPT !.ret = Get(self.change, original_id, original_id)]

\* self.change.get(original_id), without the default
get_id_without_default(self, original_id) ==
    IF original_id = None THEN [self EXCEPT !.ret = None]
    ELSE LET valid_id == Get(self.change, original_id, None)
         IN  IF valid_id = None \/ valid_id \in DOMAIN self.invalid
             THEN [self EXCEPT !.ret = None]
             ELSE [self EXCEPT !.ret = valid_id]

get_id(self, original_id) ==
    IF original_id = None THEN [self EXCEPT !.ret = None]
    ELSE LET valid_id == Get(self.change, original_id, original_id)
         IN  IF valid_id = None \/ valid_id \in DOMAIN self.invalid
             THEN [self EXCEPT !.ret = None]
             ELSE IF valid_id \in DOMAIN self.invalid
             THEN [self EXCEPT !.used_invalid = @ \cup {valid_id}, !.ret = None]
             ELSE [self EXCEPT !.ret = valid_id]

\* Only the id itself is marked, never its parent
use_without_parent(self, stop_id) ==
    [self EXCEPT !.used = @ \cup {stop_id}]

use(self, stop_id) ==
    LET parent_id == Get(self.parents, stop_id, None)
    IN  [self EXCEPT !.used = IF parent_id # None THEN @ \cup {parent_id, stop_id}
                                                  ELSE @ \cup {stop_id}]

\* Two different single zones keep the first one instead of the boundary
zone_set_first_wins(self, group_id, zone_id) ==
    LET current_zone == Get(self.zones, group_id, None)
    IN  IF current_zone = zone_id THEN self
        ELSE IF current_zone = None
        THEN [self EXCEPT !.zones = Put(@, group_id, zone_id)]
        ELSE IF current_zone = BOUNDARY \/ zone_id = BOUNDARY
        THEN [self EXCEPT !.zones = Put(@, group_id, BOUNDARY)]
        ELSE Warn(self, [msg |-> "zone conflict", group_id |-> group_id,
                         current_zone |-> current_zone, zone_id |-> zone_id])

\* Any change of zone is stored as given
zone_set_last_wins(self, group_id, zone_id) ==
    [self EXCEPT !.zones = Put(@, group_id, zone_id)]

\* Boundary zones are not exempt from the conflict warning
zone_set_warns_on_boundary(self, group_id, zone_id) ==
    LET current_zone == Get(self.zones, group_id, None)
    IN  IF current_zone = zone_id THEN self
        ELSE IF current_zone = None
        THEN [self EXCEPT !.zones = Put(@, group_id, zone_id)]
        ELSE [Warn(self, [msg |-> "zone conflict", group_id |-> group_id,
                          current_zone |-> current_zone, zone_id |-> zone_id])
                EXCEPT !.zones = Put(@, group_id, BOUNDARY)]

zone_set(self, group_id, zone_id) ==
    LET current_zone == Get(self.zones, group_id, None)
    IN  IF current_zone = zone_id THEN self
        ELSE IF current_zone = None
        THEN [self EXCEPT !.zones = Put(@, group_id, zone_id)]
        ELSE IF current_zone = BOUNDARY \/ zone_id = BOUNDARY
        THEN [self EXCEPT !.zones = Put(@, group_id, BOUNDARY)]
        ELSE [Warn(self, [msg |-> "zone conflict", group_id |-> group_id,
                          current_zone |-> current_zone, zone_id |-> zone_id])
                EXCEPT !.zones = Put(@, group_id, BOUNDARY)]

\* Only the records marked used themselves are written
ShouldExport_own_id_only(self, stop_id, stop_data) ==
    stop_id \in self.used

\* The direction is inverted: a hub is written when one of its platforms is
\* used, a platform only when it is used itself
ShouldExport_hub_by_child(self, stop_id, stop_data) ==
    stop_id \in self.used
    \/ (Get(stop_data, "location_type", None) = <<"1">>
        /\ \E c \in self.used \cap DOMAIN self.data :
                Get(self.data[c], "parent_station", None) = stop_id)

\* A hub is never written, used or not
ShouldExport_never_hubs(self, stop_id, stop_data) ==
    /\ Get(stop_data, "location_type", None) # <<"1">>
    /\ (stop_id \in self.used \/ Get(stop_data, "parent_station", None) \in self.used)

\* The condition under which export writes the record stop_data of stop_id
ShouldExport(self, stop_id, stop_data) ==
    stop_id \in self.used
    \/ (Get(stop_data, "parent_station", None) \in self.used
        /\ Get(stop_data, "location_type", None) # <<"1">>)

RECURSIVE ExportStops(_, _, _)
\* The loop over self.data.items() from its n-th item on; rows are the dicts
\* handed to writer.writerow so far
ExportStops(self, rows, n) ==
    IF n > Len(self.data_keys) THEN [self EXCEPT !.files = Put(@, "stops.txt", rows)]
    ELSE LET stop_id   == self.data_keys[n]
             stop_data == self.data[stop_id]
             zone_id   == Get(self.zones, Slice(stop_id, 0, 4), None)
             warned    == IF zone_id = None
                          THEN Warn(self, [msg |-> "no zone_id assigned (using '1/2')",
                                           group_id |-> Slice(stop_id, 0, 4)])
                          ELSE self
             filled    == Put(stop_data, "zone_id", IF zone_id = None THEN BOUNDARY ELSE zone_id)
         IN  IF ShouldExport(self, stop_id, stop_data)
             THEN IF ~Truthy(Get(stop_data, "zone_id", None))
                  THEN ExportStops([warned EXCEPT !.data = Put(@, stop_id, filled)],
                                   Append(rows, filled), n + 1)
                  ELSE ExportStops(self, Append(rows, stop_data), n + 1)
             ELSE ExportStops(self, rows, n + 1)

export(self) ==
    LET exported       == ExportStops(self, <<>>, 1)
        unused_missing == (DOMAIN self.missing_stops) \ self.used_invalid
    IN  [exported EXCEPT !.files = Put(@, "missing_stops.json",
                            [missing |-> Sorted(self.used_invalid),
                             unused  |-> Sorted(unused_missing)])]

-----------------------------------------------------------------------------
(* The environment: the two external datasets and the caller's input *)

MaxStakes == 2

\* Stake lists of at most n stakes with pairwise different codes
RECURSIVE StakeLists(_, _)
StakeLists(stakes, n) ==
    IF n = 0 THEN {<<>>}
    ELSE LET shorter == StakeLists(stakes, n - 1)
         IN  shorter \cup {Append(l, s) : l \in shorter, s \in stakes}

DistinctCodes(l) == \A i, j \in 1..Len(l) : i # j => l[i].code # l[j].code

\* A stake of group gid: its id is the group's id followed by its code
ZTMStop(gid, code, pos) ==
    [id |-> gid \o code, code |-> code, lat |-> pos[1], lon |-> pos[2], wheelchair |-> <<"0">>]

Stakes(gid, codes, positions) == {ZTMStop(gid, c, p) : c \in codes, p \in positions}

NoPos == <<None, None>>
Pos(lat, lon) == <<Frac(lat, 1), Frac(lon, 1)>>

\* The missing-stops gist: stake id -> [lat, lon]
MissingStopsGist == (<<"1", "3", "0", "1", "0", "1">> :> <<Frac(3, 1), Frac(3, 1)>>)

\* The rail-platforms gist: group id -> station record.  Station 4900 has two
\* platforms; its stake 03 is not in the stake-to-platform map and its stake 04
\* is mapped to a platform that is not declared.
RailPlatformsGist ==
    (<<"4", "9", "0", "0">> :> [name |-> <<"W", "-", "w", "a", " ", "Z", "a", "c", "h", ".">>, pos |-> <<"5", "2", ",", "2", "1">>, oneplatform |-> FALSE,
                zone_id |-> <<"1">>, ibnr_code |-> <<"3", "3", "6", "0", "5">>, wheelchair |-> <<"1">>,
                platforms |-> << <<<<"4", "9", "0", "0", "p", "1">>, <<"5", "2", ",", "2", "1">>>>, <<<<"4", "9", "0", "0", "p", "2">>, <<"5", "2", ",", "2", "2">>>> >>,
                stops |-> (<<"4", "9", "0", "0", "0", "1">> :> <<"4", "9", "0", "0", "p", "1">>) @@ (<<"4", "9", "0", "0", "0", "2">> :> <<"4", "9", "0", "0", "p", "2">>)
                          @@ (<<"4", "9", "0", "0", "0", "4">> :> <<"4", "9", "0", "0", "p", "9">>)])
    @@
    (<<"3", "9", "0", "1">> :> [name |-> <<"W", "-", "w", "a", " ", "S", "l", ".">>, pos |-> <<"5", "2", ",", "2", "0">>, oneplatform |-> TRUE,
                pkpplk_code |-> <<"4", "4">>])

ZTMStopGroup(gid, name, town, town_code) ==
    [id |-> gid, name |-> name, town |-> town, town_code |-> town_code]

\* The groups the caller may hand to load_group, each with its stake list
Inputs ==
    LET of(group, stakes) ==
            {[group |-> group, stops |-> l] :
                l \in {x \in StakeLists(stakes, MaxStakes) : DistinctCodes(x)}}
    IN       of(ZTMStopGroup(<<"1", "2", "3", "4">>, <<"r", "o", "n", "d", "o", " ", "A">>, <<"Z", "b">>, <<"Z", "B">>),
                Stakes(<<"1", "2", "3", "4">>, {<<"0", "1">>, <<"8", "1">>}, {NoPos, Pos(1, 1)}))
        \cup of(ZTMStopGroup(<<"1", "3", "0", "1">>, <<"a", "l", ".", "X">>, <<"Z", "b">>, <<"Z", "B">>),
                Stakes(<<"1", "3", "0", "1">>, {<<"0", "1">>}, {NoPos, Pos(1, 1)}))
        \cup of(ZTMStopGroup(<<"2", "9", "2", "0">>, <<"P", "K", "P", " ", "B">>, <<"Z", "b">>, <<"Z", "B">>),
                Stakes(<<"2", "9", "2", "0">>, {<<"0", "1">>, <<"0", "2">>}, {NoPos, Pos(1, 1)}))
        \cup of(ZTMStopGroup(<<"4", "9", "0", "0">>, <<"Z", "a", "c", "h">>, <<"W", "a">>, <<"-", "-">>),
                Stakes(<<"4", "9", "0", "0">>, {<<"0", "1">>, <<"0", "2">>, <<"0", "3">>, <<"0", "4">>}, {NoPos}))
        \cup of(ZTMStopGroup(<<"4", "9", "1", "3">>, <<"W", "K", "D", " ", "C">>, <<"W", "a">>, <<"-", "-">>),
                Stakes(<<"4", "9", "1", "3">>, {<<"0", "1">>, <<"0", "2">>}, {NoPos, Pos(2, 4), <<None, Frac(4, 1)>>}))
        \cup of(ZTMStopGroup(<<"3", "9", "0", "1">>, <<"S", "l">>, <<"W", "a">>, <<"-", "-">>),
                Stakes(<<"3", "9", "0", "1">>, {<<"0", "1">>}, {NoPos}))

MaxMatchStakes == 3

\* An ordinary group with two virtual and two physical stakes at any of two
\* positions or none: the inputs of the virtual-stake matcher
MatchInputs ==
    {[group |-> ZTMStopGroup(<<"6", "0", "5", "9">>, <<"M", "e", "t", "r", "o">>, <<"W", "a">>, <<"-", "-">>), stops |-> l] :
        l \in {x \in StakeLists(Stakes(<<"6", "0", "5", "9">>, {<<"8", "8">>, <<"8", "1">>, <<"2", "8">>, <<"0", "1">>},
                                        {NoPos, Pos(1, 1), Pos(1, 2)}), MaxMatchStakes) :
                    DistinctCodes(x)}}

\* The caller's input: one group, which it may load any number of times
Feeds == {<<x>> : x \in Inputs}

UnknownId == <<"7", "7", "7", "7", "0", "1">>

\* The ids a caller may pass to get_id: the stakes of its input, one id of no
\* group, and None
RawIds ==
    {UnknownId, None}
    \cup UNION {{feed[i].stops[k].id : k \in 1..Len(feed[i].stops)} : i \in 1..Len(feed)}

\* The ids a caller may pass to use: the stakes and groups of its input and the
\* platforms the gist declares for them
StopIds ==
    LET groups == {feed[i].group.id : i \in 1..Len(feed)}
    IN  groups
        \cup UNION {{feed[i].stops[k].id : k \in 1..Len(feed[i].stops)} : i \in 1..Len(feed)}
        \cup UNION {{feed[i].stops[k].id : k \in 1..Len(feed[i].stops)} : i \in 1..Len(feed)}
        \cup UNION {{rail_platforms[g].platforms[k][1] : k \in 1..Len(rail_platforms[g].platforms)} :
                        g \in {x \in groups \cap DOMAIN rail_platforms :
                                    "platforms" \in DOMAIN rail_platforms[x]}}

ZoneKeys == {feed[i].group.id : i \in 1..Len(feed)}

ZoneLabels == {<<"1">>, <<"2">>, BOUNDARY}

-----------------------------------------------------------------------------
(* The state machine *)

Self ==
    [data |-> data, data_keys |-> data_keys, parents |-> parents, zones |-> zones,
     invalid |-> invalid, change |-> change, used_invalid |-> used_invalid,
     used |-> used, missing_stops |-> missing_stops, rail_platforms |-> rail_platforms,
     names |-> names,
     ret |-> None, exc |-> None, log |-> <<>>, files |-> EmptyDict]

\* The number of zone-conflict warnings in log about group key k
ConflictsIn(log, k) ==
    Cardinality({i \in 1..Len(log) : log[i].msg = "zone conflict" /\ log[i].group_id = k})

\* The handler becomes s; the call is recorded with what it produced
HandlerBecomes(s, op, args) ==
    /\ data' = s.data
    /\ data_keys' = s.data_keys
    /\ parents' = s.parents
    /\ zones' = s.zones
    /\ invalid' = s.invalid
    /\ change' = s.change
    /\ used_invalid' = s.used_invalid
    /\ used' = s.used
    /\ missing_stops' = s.missing_stops
    /\ rail_platforms' = s.rail_platforms
    /\ names' = s.names
    /\ call' = [op |-> op, args |-> args, ret |-> s.ret, exc |-> s.exc,
                log |-> s.log, files |-> s.files]
    /\ zone_conflicts' =
          [k \in (DOMAIN zone_conflicts) \cup {s.log[i].group_id : i \in {j \in 1..Len(s.log) : s.log[j].msg = "zone conflict"}} |->
              Get(zone_conflicts, k, 0) + ConflictsIn(s.log, k)]

\* A method of the handler ran.  The handler's two external mappings are the
\* very objects the cache holds, so what the method did to them is seen there.
Becomes(s, op, args) ==
    /\ HandlerBecomes(s, op, args)
    /\ lru_cache' = [f \in DOMAIN lru_cache |->
                        IF f = "get_missing_stops" THEN s.missing_stops ELSE s.rail_platforms]
    /\ UNCHANGED <<http, instances>>

\* StopHandler.__init__ with the two datasets fetched, and the caller's input
\* drawn from feeds
InitWith(feeds) ==
    /\ data = EmptyDict
    /\ data_keys = <<>>
    /\ parents = EmptyDict
    /\ zones = EmptyDict
    /\ invalid = EmptyDict
    /\ change = EmptyDict
    /\ used_invalid = {}
    /\ used = {}
    /\ missing_stops = MissingStopsGist
    /\ rail_platforms = RailPlatformsGist
    /\ names = PROPER_STOP_NAMES
    /\ feed \in feeds
    /\ call = [op |-> "__init__", args |-> <<>>, ret |-> None, exc |-> None,
               log |-> <<>>, files |-> EmptyDict]
    /\ zone_conflicts = EmptyDict
    /\ lru_cache = ("get_missing_stops" :> MissingStopsGist) @@ ("get_rail_platforms" :> RailPlatformsGist)
    /\ http = [f \in {"get_missing_stops", "get_rail_platforms"} |-> [sent |-> 1, ok |-> 1]]
    /\ instances = 1

Init == InitWith(Feeds)

LoadGroup ==
    \E i \in 1..Len(feed) :
        LET r == load_group(Self, feed[i].group, feed[i].stops)
        IN  /\ Becomes(r.self, "load_group", <<feed[i].group, feed[i].stops>>)
            /\ feed' = [feed EXCEPT ![i] = [group |-> r.group, stops |-> r.stops]]

GetId ==
    \E x \in RawIds :
        /\ Becomes(get_id(Self, x), "get_id", <<x>>)
        /\ UNCHANGED feed

Use ==
    \E x \in StopIds :
        /\ Becomes(use(Self, x), "use", <<x>>)
        /\ UNCHANGED feed

ZoneSet ==
    \E k \in ZoneKeys, z \in ZoneLabels :
        /\ Becomes(zone_set(Self, k, z), "zone_set", <<k, z>>)
        /\ UNCHANGED feed

Export ==
    /\ Becomes(export(Self), "export", <<>>)
    /\ UNCHANGED feed

Next == LoadGroup \/ GetId \/ Use \/ ZoneSet \/ Export

Spec == Init /\ [][Next]_vars

\* One load_group call on each input of the virtual-stake matcher
InitMatch == InitWith({<<x>> : x \in MatchInputs})

SpecMatch == InitMatch /\ [][LoadGroup]_vars

MaxInstances == 3
MaxRequests == 2

\* What the two endpoints may answer: the dataset, or an error status
MissingStopsResponses ==
    {[status |-> "200", json |-> MissingStopsGist], [status |-> "500", json |-> EmptyDict]}

RailPlatformsResponses ==
    {[status |-> "200", json |-> RailPlatformsGist], [status |-> "500", json |-> EmptyDict]}

\* The process-wide state the memoized functions work on
Proc == [lru_cache |-> lru_cache, http |-> http, ret |-> EmptyDict, exc |-> None]

\* The process at its start: nothing fetched, no StopHandler constructed
InitProcess ==
    /\ data = EmptyDict
    /\ data_keys = <<>>
    /\ parents = EmptyDict
    /\ zones = EmptyDict
    /\ invalid = EmptyDict
    /\ change = EmptyDict
    /\ used_invalid = {}
    /\ used = {}
    /\ missing_stops = EmptyDict
    /\ rail_platforms = EmptyDict
    /\ names = PROPER_STOP_NAMES
    /\ feed \in {<<x>> : x \in {i \in Inputs : i.group.id \in {<<"1", "3", "0", "1">>, <<"3", "9", "0", "1">>}}}
    /\ call = [op |-> "start", args |-> <<>>, ret |-> None, exc |-> None,
               log |-> <<>>, files |-> EmptyDict]
    /\ zone_conflicts = EmptyDict
    /\ lru_cache = EmptyDict
    /\ http = [f \in {"get_missing_stops", "get_rail_platforms"} |-> [sent |-> 0, ok |-> 0]]
    /\ instances = 0

\* StopHandler(version): the new object takes the place of the previous one,
\* unless a fetch raises, which leaves the previous one in place
Construct ==
    /\ instances < MaxInstances
    /\ \A f \in DOMAIN http : f \in DOMAIN lru_cache \/ http[f].sent < MaxRequests
    /\ \E missing_response \in MissingStopsResponses, rail_response \in RailPlatformsResponses :
            LET r == __init__(Proc, missing_response, rail_response)
            IN  /\ IF r.proc.exc # None
                   THEN /\ HandlerBecomes([Self EXCEPT !.exc = r.proc.exc], "__init__", <<>>)
                        /\ instances' = instances
                   ELSE /\ HandlerBecomes(r.self, "__init__", <<>>)
                        /\ instances' = instances + 1
                /\ lru_cache' = r.proc.lru_cache
                /\ http' = r.proc.http
                /\ UNCHANGED feed

\* The methods are called on a constructed handler
NextProcess == Construct \/ (instances > 0 /\ Next)

SpecProcess == InitProcess /\ [][NextProcess]_vars

-----------------------------------------------------------------------------
(* Properties *)

IsRailway(group_id) == Slice(group_id, 1, 3) \in {<<"9", "0">>, <<"9", "1">>, <<"9", "2">>}

\* The most recent call was op and returned normally
Called(op) == call.op = op /\ call.exc = None

\* The stops of the most recent load_group call as its loops saw them
LoadedStops == _find_missing_positions(Self, call.args[2])

Registered(x) == x \in (DOMAIN data) \cup (DOMAIN change) \cup (DOMAIN invalid)

\* C1: a get_id call returns None, or else its argument taken once through the
\* alias map (the argument itself when it has no alias), and that id is not a
\* key of the invalid set.
C1_GetIdOneHopNeverInvalid ==
    Called("get_id") =>
        \/ call.ret = None
        \/ /\ call.ret = Get(change, call.args[1], call.args[1])
           /\ call.ret \notin DOMAIN invalid

\* get_id was called on a stake whose alias target is in the invalid set
C1_Witness ==
    /\ Called("get_id")
    /\ call.args[1] \in DOMAIN change
    /\ change[call.args[1]] \in DOMAIN invalid
    /\ call.ret = None

\* C2 as stated: get_id on an id that is a key of none of data, change and
\* invalid returns None and does not raise.
C2_UnregisteredGivesNone ==
    (call.op = "get_id" /\ ~Registered(call.args[1])) =>
        (call.ret = None /\ call.exc = None)

\* C2 as amended: get_id on an id that is a key of none of data, change and
\* invalid returns that id unchanged (None only for the argument None) and
\* does not raise.
C2_UnregisteredGivesItself ==
    (call.op = "get_id" /\ ~Registered(call.args[1])) =>
        (call.ret = call.args[1] /\ call.exc = None)

\* get_id was called on the id of no group and returned it
C2_Witness ==
    /\ Called("get_id")
    /\ call.args[1] = UnknownId
    /\ ~Registered(UnknownId)
    /\ call.ret = UnknownId

IsVirtual(stop) == stop.code[1] = "8"

Colocated(v, stop) ==
    ~IsVirtual(stop) /\ v.lat # None /\ v.lon # None /\ stop.lat = v.lat /\ stop.lon = v.lon

\* The first physical stake of stops, in list order, at the position of v
FirstColocated(v, stops) ==
    stops[CHOOSE i \in 1..Len(stops) :
            Colocated(v, stops[i]) /\ \A j \in 1..(i - 1) : ~Colocated(v, stops[j])]

\* v is the stake 605988 and its sibling 605928 is physical with v's second
\* code character
IsMlocinyCase(v, stops) ==
    /\ v.id = <<"6", "0", "5", "9", "8", "8">>
    /\ \E i \in 1..Len(stops) :
            stops[i].id = <<"6", "0", "5", "9", "2", "8">> /\ ~IsVirtual(stops[i]) /\ stops[i].code[2] = v.code[2]

\* C3 as stated: after load_group on an ordinary group, every virtual stake
\* with a physical sibling at exactly its position is aliased to the first such
\* sibling in list order, whatever its id.
C3_ColocatedAlwaysWins ==
    (Called("load_group") /\ ~IsRailway(call.args[1].id)) =>
        \A k \in 1..Len(LoadedStops) :
            LET v == LoadedStops[k]
            IN  (IsVirtual(v) /\ \E i \in 1..Len(LoadedStops) : Colocated(v, LoadedStops[i]))
                    => Get(change, v.id, None) = FirstColocated(v, LoadedStops).id

\* C3 as amended: the same, except that stake 605988 is aliased to 605928
\* whenever 605928 is a physical sibling with the same second code character,
\* co-located or not.
C3_ColocatedWinsButMlociny ==
    (Called("load_group") /\ ~IsRailway(call.args[1].id)) =>
        \A k \in 1..Len(LoadedStops) :
            LET v == LoadedStops[k]
            IN  /\ (IsVirtual(v) /\ IsMlocinyCase(v, LoadedStops))
                        => Get(change, v.id, None) = <<"6", "0", "5", "9", "2", "8">>
                /\ (IsVirtual(v) /\ ~IsMlocinyCase(v, LoadedStops)
                        /\ \E i \in 1..Len(LoadedStops) : Colocated(v, LoadedStops[i]))
                        => Get(change, v.id, None) = FirstColocated(v, LoadedStops).id

\* A group was loaded in which a virtual stake (not 605988) has a co-located
\* physical sibling listed after a sibling that matches only by code
C3_Witness ==
    /\ Called("load_group")
    /\ \E k, i, j \in 1..Len(LoadedStops) :
            LET v == LoadedStops[k]
            IN  /\ IsVirtual(v) /\ v.id # <<"6", "0", "5", "9", "8", "8">>
                /\ j < i
                /\ ~IsVirtual(LoadedStops[j]) /\ LoadedStops[j].code[2] = v.code[2]
                /\ ~Colocated(v, LoadedStops[j])
                /\ Colocated(v, LoadedStops[i])
                /\ change[v.id] = LoadedStops[i].id

\* get_id returns None for every stake of the most recent load_group call
LoadedStakesUnresolved ==
    \A k \in 1..Len(call.args[2]) : get_id(Self, call.args[2][k].id).ret = None

\* C4: a load_group call on a railway group that is not in the allowlist adds
\* no record to data, and afterwards get_id returns None for every stake of
\* the group.
C4_InactiveStationSuppressed ==
    [][(call'.op = "load_group" /\ IsRailway(call'.args[1].id)
            /\ call'.args[1].id \notin ACTIVE_RAIL_STATIONS)
        => /\ call'.exc = None
           /\ data' = data
           /\ data_keys' = data_keys
           /\ LoadedStakesUnresolved']_vars

\* An inactive railway group of two stakes, one of them with a position, was
\* loaded
C4_Witness ==
    /\ Called("load_group")
    /\ IsRailway(call.args[1].id)
    /\ call.args[1].id \notin ACTIVE_RAIL_STATIONS
    /\ Len(call.args[2]) = 2
    /\ \E k \in 1..2 : call.args[2][k].lat # None /\ call.args[2][k].lon # None
    /\ \A k \in 1..2 : change[call.args[2][k].id] = None
    /\ data = EmptyDict

\* The platform ids the gist declares for station group_id
DeclaredPlatforms(group_id) ==
    {rail_platforms[group_id].platforms[k][1] :
        k \in 1..Len(rail_platforms[group_id].platforms)}

IsMultiPlatform(group_id) ==
    /\ IsRailway(group_id)
    /\ group_id \in ACTIVE_RAIL_STATIONS
    /\ group_id \in DOMAIN rail_platforms
    /\ ~rail_platforms[group_id].oneplatform

\* C5: a load_group call on an active railway group with multi-platform
\* metadata leaves in data the hub record of the group (location_type 1, empty
\* parent_station) as its only hub, and one record per declared platform with
\* location_type 0, parent_station the group id and a parents entry to the
\* group id; it adds no other key to data and changes no other record.
C5_HubAndPlatforms ==
    [][(call'.op = "load_group" /\ IsMultiPlatform(call'.args[1].id))
        => LET g == call'.args[1].id
               P == DeclaredPlatforms(g)
           IN  /\ call'.exc = None
               /\ DOMAIN data' = (DOMAIN data) \cup {g} \cup P
               /\ \A k \in (DOMAIN data) \ ({g} \cup P) : data'[k] = data[k]
               /\ data'[g].stop_id = g
               /\ data'[g].location_type = <<"1">>
               /\ data'[g].parent_station = <<>>
               /\ \A p \in P :
                     /\ p # g
                     /\ data'[p].stop_id = p
                     /\ data'[p].location_type = <<"0">>
                     /\ data'[p].parent_station = g
                     /\ p \in DOMAIN parents' /\ parents'[p] = g
               /\ {k \in DOMAIN data' : Slice(k, 0, 4) = g
                        /\ Get(data'[k], "location_type", None) = <<"1">>} = {g}
               /\ Cardinality({i \in 1..Len(data_keys') : Slice(data_keys'[i], 0, 4) = g})
                     = 1 + Cardinality(P)]_vars

\* A multi-platform station with two declared platforms was loaded
C5_Witness ==
    /\ Called("load_group")
    /\ IsMultiPlatform(call.args[1].id)
    /\ Cardinality(DeclaredPlatforms(call.args[1].id)) = 2
    /\ DOMAIN data = {call.args[1].id} \cup DeclaredPlatforms(call.args[1].id)
    /\ Len(call.args[2]) > 0

MaxZoneCalls == 3

RECURSIVE ApplyZones(_, _, _)
\* The handler after zone_set(k, z) for each z of labels, in order
ApplyZones(self, k, labels) ==
    IF labels = <<>> THEN self
    ELSE ApplyZones(zone_set(self, k, Head(labels)), k, Tail(labels))

\* The zone stored for k after zone_set(k, z) for each z of labels, in order
StoredAfter(k, labels) == Get(ApplyZones(Self, k, labels).zones, k, None)

ZoneCallSeqs == UNION {[1..n -> ZoneLabels] : n \in 1..MaxZoneCalls}

\* C6: in every state and for all labels A and B, zone_set(k,A);zone_set(k,B)
\* and zone_set(k,B);zone_set(k,A) store the same zone for k; when k has no
\* zone yet that zone is A if A = B and the boundary if A and B are different
\* single zones, and after any sequence of calls it is the one label assigned
\* if all calls assigned the same, else the boundary: a function of the set of
\* labels assigned, not of their order.
C6_ZoneSetOrderIndependent ==
    \A k \in ZoneKeys :
        /\ \A A, B \in ZoneLabels : StoredAfter(k, <<A, B>>) = StoredAfter(k, <<B, A>>)
        /\ k \notin DOMAIN zones =>
            /\ \A A \in ZoneLabels : StoredAfter(k, <<A, A>>) = A
            /\ \A A, B \in ZoneLabels \ {BOUNDARY} :
                    A # B => StoredAfter(k, <<A, B>>) = BOUNDARY
            /\ \A labels \in ZoneCallSeqs :
                    LET assigned == {labels[i] : i \in 1..Len(labels)}
                    IN  StoredAfter(k, labels) =
                            IF Cardinality(assigned) = 1 THEN labels[1] ELSE BOUNDARY

\* Two different single zones were assigned to a group key one after the other
C6_Witness ==
    /\ Called("zone_set")
    /\ call.args[2] # BOUNDARY
    /\ Len(call.log) = 1
    /\ call.log[1].current_zone \notin {BOUNDARY, call.args[2]}
    /\ zones[call.args[1]] = BOUNDARY

\* C7: a group key whose zone is the boundary keeps the boundary in every step
\* of every call.
C7_BoundaryIsStable ==
    [][\A k \in DOMAIN zones :
            zones[k] = BOUNDARY => (k \in DOMAIN zones' /\ zones'[k] = BOUNDARY)]_vars

\* A single zone was assigned to a group key that was at the boundary without
\* any conflict, and the key is still at the boundary
C7_Witness ==
    /\ Called("zone_set")
    /\ call.args[2] # BOUNDARY
    /\ zones[call.args[1]] = BOUNDARY
    /\ Get(zone_conflicts, call.args[1], 0) = 0

\* C8: a zone_set call that assigns a single zone to a group key holding a
\* different single zone stores the boundary and logs exactly one zone-conflict
\* warning; a zone_set call on a key at the boundary logs none; and no key
\* ever has more than one zone-conflict warning logged.
C8_ConflictWarnedOnce ==
    [][(call'.op = "zone_set") =>
        LET k == call'.args[1]
            z == call'.args[2]
            n == ConflictsIn(call'.log, k)
        IN  /\ (k \in DOMAIN zones /\ zones[k] # BOUNDARY /\ z \notin {zones[k], BOUNDARY})
                    => (zones'[k] = BOUNDARY /\ n = 1 /\ Len(call'.log) = 1)
            /\ (k \in DOMAIN zones /\ zones[k] = BOUNDARY) => n = 0
            /\ Get(zone_conflicts', k, 0) = Get(zone_conflicts, k, 0) + n
            /\ Get(zone_conflicts', k, 0) <= 1]_vars

\* After a conflict on a group key, a further single zone was assigned to it
\* and nothing was logged
C8_Witness ==
    /\ Called("zone_set")
    /\ call.args[2] # BOUNDARY
    /\ call.log = <<>>
    /\ zones[call.args[1]] = BOUNDARY
    /\ Get(zone_conflicts, call.args[1], 0) = 1

\* The most recent export wrote a row for stop id
Written(id) ==
    \E i \in 1..Len(call.files["stops.txt"]) : call.files["stops.txt"][i].stop_id = id

\* C9: an export call writes a platform record (non-empty parent_station,
\* location_type 0) exactly if its id or its hub's id is in the usage set, and
\* any other record (a hub, or one without a parent) exactly if its own id is
\* in the usage set.
C9_ExportRule ==
    Called("export") =>
        \A id \in DOMAIN data :
            LET parent == Get(data[id], "parent_station", None)
                type   == Get(data[id], "location_type", None)
            IN  IF Truthy(parent) /\ type = <<"0">>
                THEN Written(id) <=> (id \in used \/ parent \in used)
                ELSE /\ type = <<"1">> \/ ~Truthy(parent)
                     /\ Written(id) <=> id \in used

\* An export wrote a platform that is not marked used, because its hub is
C9_Witness ==
    /\ Called("export")
    /\ \E id \in DOMAIN data :
            /\ id \notin used
            /\ Truthy(Get(data[id], "parent_station", None))
            /\ data[id].parent_station \in used
            /\ Written(id)

\* A multi-platform station is loaded and the usage set is what use(p1) alone
\* leaves: p1 and its hub; p2 is another platform of the hub
OnlyPlatformUsed(p1, p2) ==
    /\ p1 \in DOMAIN parents /\ p2 \in DOMAIN parents
    /\ p1 # p2
    /\ parents[p1] = parents[p2]
    /\ {p1, p2, parents[p1]} \subseteq DOMAIN data
    /\ used = {p1, parents[p1]}

\* C10 as stated: with only p1 (and so its hub) marked used, export writes p1
\* and the hub and does not write the sibling platform p2.
C10_SiblingNotExported ==
    Called("export") =>
        \A p1, p2 \in DOMAIN parents :
            OnlyPlatformUsed(p1, p2)
                => (Written(p1) /\ Written(parents[p1]) /\ ~Written(p2))

\* C10 as amended: with only p1 (and so its hub) marked used, export writes p1
\* and the hub, and it also writes the sibling platform p2, whose parent is in
\* the usage set.
C10_SiblingExportedWithHub ==
    Called("export") =>
        \A p1, p2 \in DOMAIN parents :
            OnlyPlatformUsed(p1, p2)
                => (Written(p1) /\ Written(parents[p1]) /\ Written(p2))

\* An export ran with one of two platforms and its hub marked used
C10_Witness ==
    /\ Called("export")
    /\ \E p1, p2 \in DOMAIN parents : OnlyPlatformUsed(p1, p2)
    /\ Len(call.files["stops.txt"]) = 3

\* C11: an export call leaves the registry as it found it: data with every
\* field of every record, the order of its keys, parents, zones, change,
\* invalid, used and used_invalid are after the call what they were before it.
C11_ExportReadOnly ==
    [][(call'.op = "export") =>
        /\ data' = data
        /\ data_keys' = data_keys
        /\ parents' = parents
        /\ zones' = zones
        /\ change' = change
        /\ invalid' = invalid
        /\ used' = used
        /\ used_invalid' = used_invalid]_vars

\* An export wrote a record of an ordinary stake, which the consolidation
\* stores without a zone_id, and the stored record now has one
C11_Witness ==
    /\ Called("export")
    /\ \E id \in DOMAIN data :
            /\ ~IsRailway(Slice(id, 0, 4))
            /\ Written(id)
            /\ "zone_id" \in DOMAIN data[id]

\* C12: a get_id call whose argument, taken once through the alias map (the
\* argument itself when it has no alias), is a key of the invalid set returns
\* None and leaves that id in used_invalid, from where export reports it as
\* missing.
C12_InvalidUseRecorded ==
    [][(call'.op = "get_id" /\ call'.args[1] # None
            /\ Get(change, call'.args[1], call'.args[1]) \in DOMAIN invalid)
        => /\ call'.ret = None
           /\ Get(change, call'.args[1], call'.args[1]) \in used_invalid']_vars

\* get_id was called on a stake that is itself in the invalid set, and
\* returned None
C12_Witness ==
    /\ Called("get_id")
    /\ call.args[1] \in DOMAIN invalid
    /\ call.args[1] \notin DOMAIN change
    /\ call.ret = None

\* Every id in the usage set that has a parent has its parent in the usage set
UsedClosed == \A x \in used \cap DOMAIN parents : parents[x] \in used

\* C13 as stated: in every step of load_group, use and the other calls the
\* usage set only grows, and after every step every id in it that has an entry
\* in parents has that parent in it too, whatever the order of the calls.
C13_UsedAlwaysClosed ==
    [][used \subseteq used' /\ UsedClosed']_vars

\* C13 as amended: the usage set only grows; a use(x) call adds x and, when x
\* has an entry in parents at the time of the call, parents[x], and nothing
\* else; and the set stays closed under parents (and within the keys of data)
\* as long as every use(x) call is made when x is already a key of data, that
\* is after the group producing x was consolidated.
C13_UsedClosedWhenUsedAfterLoad ==
    [][/\ used \subseteq used'
       /\ (call'.op = "use") =>
            used' = used \cup {call'.args[1]}
                         \cup (IF call'.args[1] \in DOMAIN parents
                               THEN {parents[call'.args[1]]} ELSE {})
       /\ (/\ UsedClosed
           /\ used \subseteq DOMAIN data
           /\ (call'.op = "use") => call'.args[1] \in DOMAIN data)
          => (UsedClosed' /\ used' \subseteq DOMAIN data')]_vars

\* use was called on a platform of a consolidated station when nothing else
\* was marked, and the platform and its hub are now in the usage set
C13_Witness ==
    /\ Called("use")
    /\ call.args[1] \in DOMAIN parents
    /\ call.args[1] \in DOMAIN data
    /\ used = {call.args[1], parents[call.args[1]]}

\* The rows of the most recent export that name a parent station
RowsWithParent ==
    {i \in 1..Len(call.files["stops.txt"]) :
        Truthy(Get(call.files["stops.txt"][i], "parent_station", None))}

\* C14 as stated: for every row an export writes with a non-empty
\* parent_station, data holds a record for that parent with location_type 1
\* and the same export writes the parent's row, whatever calls came before.
C14_ParentRowAlwaysWritten ==
    Called("export") =>
        \A i \in RowsWithParent :
            LET parent == call.files["stops.txt"][i].parent_station
            IN  /\ parent \in DOMAIN data
                /\ Get(data[parent], "location_type", None) = <<"1">>
                /\ Written(parent)

\* C14 as amended: for every row an export writes with a non-empty
\* parent_station, data holds a record for that parent with location_type 1;
\* the same export writes the parent's row exactly if the parent is in the
\* usage set, which is the case whenever the usage set is closed under parents
\* (every use of a platform came after its station was consolidated).
C14_ParentRowWrittenWhenUsed ==
    Called("export") =>
        \A i \in RowsWithParent :
            LET parent == call.files["stops.txt"][i].parent_station
            IN  /\ parent \in DOMAIN data
                /\ Get(data[parent], "location_type", None) = <<"1">>
                /\ Written(parent) <=> parent \in used
                /\ UsedClosed => Written(parent)

\* An export wrote the row of a platform that is marked used itself, and the
\* row of its hub
C14_Witness ==
    /\ Called("export")
    /\ UsedClosed
    /\ \E i \in RowsWithParent :
            /\ call.files["stops.txt"][i].stop_id \in used
            /\ Written(call.files["stops.txt"][i].parent_station)

\* C15: in every state no value of the alias map other than None is itself a
\* key of the alias map, so that the one lookup get_id makes in it yields an id
\* the map would not change again.
C15_NoAliasChains ==
    \A k \in DOMAIN change :
        /\ change[k] # None => change[k] \notin DOMAIN change
        /\ Get(change, change[k], change[k]) = change[k]

\* The alias map holds an alias to a stop id (of a physical stake, a station
\* or a platform) and not only None
C15_Witness ==
    /\ Called("load_group")
    /\ \E k \in DOMAIN change : change[k] # None /\ change[k] \in DOMAIN data

\* C16: in every step, whatever the number of StopHandler objects constructed,
\* each of the two memoized functions has had at most one request answered
\* with its dataset; once its result is cached no further request is sent and
\* the cached mapping stays what it is; every handler's missing_stops and
\* rail_platforms are the cached mappings; and load_group, get_id, use,
\* zone_set and export leave both mappings as they found them.
C16_FetchedOnceNeverModified ==
    [][/\ \A f \in DOMAIN http :
            /\ http'[f].ok <= 1
            /\ f \in DOMAIN lru_cache =>
                    /\ http'[f] = http[f]
                    /\ f \in DOMAIN lru_cache'
                    /\ lru_cache'[f] = lru_cache[f]
       /\ (call'.op = "__init__" /\ call'.exc = None) =>
            /\ missing_stops' = lru_cache'["get_missing_stops"]
            /\ rail_platforms' = lru_cache'["get_rail_platforms"]
       /\ (call'.op \in {"load_group", "get_id", "use", "zone_set", "export"}) =>
            /\ missing_stops' = missing_stops
            /\ rail_platforms' = rail_platforms]_vars

\* A third StopHandler was constructed after a group needing a fallback
\* position was loaded, and each dataset has been requested once
C16_Witness ==
    /\ Called("__init__")
    /\ instances = 3
    /\ \A f \in DOMAIN http : http[f] = [sent |-> 1, ok |-> 1]
    /\ missing_stops = MissingStopsGist
    /\ rail_platforms = RailPlatformsGist
    /\ \E k \in 1..Len(feed[1].stops) :
            feed[1].stops[k].id \in DOMAIN missing_stops /\ feed[1].stops[k].lat = Frac(3, 1)

\* The most recent call is a load_group on a railway group in the allowlist
\* for which the rail-platforms dataset has no record
LoadedUnknownStation ==
    /\ call.op = "load_group"
    /\ IsRailway(call.args[1].id)
    /\ call.args[1].id \in ACTIVE_RAIL_STATIONS
    /\ call.args[1].id \notin DOMAIN rail_platforms

HasPosition(stop) == stop.lat # None /\ stop.lon # None

\* Every stake of the most recent load_group call has the alias None
LoadedStakesAliasedToNone ==
    \A k \in 1..Len(call.args[2]) :
        /\ call.args[2][k].id \in DOMAIN change
        /\ change[call.args[2][k].id] = None

\* C17: a load_group call on an active railway group without station
\* metadata, with at least one stake and no stake that has a position once the
\* fallback positions are applied, adds no record to data and gives every
\* stake the alias None, so that get_id returns None for every stake.
C17_StationWithoutPositionSuppressed ==
    [][(/\ LoadedUnknownStation'
        /\ Len(LoadedStops') > 0
        /\ \A k \in 1..Len(LoadedStops') : ~HasPosition(LoadedStops'[k]))
        => /\ call'.exc = None
           /\ data' = data
           /\ data_keys' = data_keys
           /\ LoadedStakesAliasedToNone'
           /\ LoadedStakesUnresolved']_vars

\* A station without metadata whose only stake has no position was loaded,
\* and data has a record for it at latitude 0, longitude 0
C17_Witness ==
    /\ Called("load_group")
    /\ LoadedUnknownStation
    /\ Len(LoadedStops) = 1
    /\ ~HasPosition(LoadedStops[1])
    /\ call.args[1].id \in DOMAIN data
    /\ data[call.args[1].id].stop_lat = <<0, 1>>
    /\ data[call.args[1].id].stop_lon = <<0, 1>>
    /\ change[LoadedStops[1].id] = call.args[1].id

\* The arithmetic mean of a non-empty list of floats
MeanOf(values) == FDivInt(FSum(values), Len(values))

\* The stakes of the most recent load_group call that have a position once the
\* fallback positions are applied
LoadedStopsWithPosition == SelectSeq(LoadedStops, HasPosition)

\* The record of the station of the most recent load_group call holds the mean
\* position of the stakes that have one
StationAtMeanOfPositioned ==
    LET positioned == LoadedStopsWithPosition
        station    == call.args[1].id
    IN  /\ station \in DOMAIN data
        /\ data[station].stop_lat = MeanOf([k \in 1..Len(positioned) |-> positioned[k].lat])
        /\ data[station].stop_lon = MeanOf([k \in 1..Len(positioned) |-> positioned[k].lon])

\* C18: a load_group call on an active railway group without station metadata
\* that returns, some stake having a position, stores for the station the
\* arithmetic mean of the positions of the stakes that have one: each sum of
\* coordinates divided by the number of those stakes.
C18_MeanOverPositionedStakes ==
    [][(/\ LoadedUnknownStation'
        /\ call'.exc = None
        /\ Len(LoadedStopsWithPosition') > 0)
        => StationAtMeanOfPositioned']_vars

\* A station without metadata was loaded with one stake at (2, 4) and one
\* stake without a position, and its record is at (1, 2)
C18_Witness ==
    /\ Called("load_group")
    /\ LoadedUnknownStation
    /\ Len(LoadedStops) = 2
    /\ Len(LoadedStopsWithPosition) = 1
    /\ LoadedStopsWithPosition[1].lat = Frac(2, 1)
    /\ LoadedStopsWithPosition[1].lon = Frac(4, 1)
    /\ data[call.args[1].id].stop_lat = Frac(1, 1)
    /\ data[call.args[1].id].stop_lon = Frac(2, 1)

\* v has a physical sibling in stops at its position or with its second code
\* character
HasMatch(v, stops) ==
    \E i \in 1..Len(stops) :
        /\ ~IsVirtual(stops[i])
        /\ Colocated(v, stops[i]) \/ stops[i].code[2] = v.code[2]

\* The registry maps, of data, change and invalid, that have the key id
MapsHolding(id) ==
    {m \in {"data", "change", "invalid"} :
        \/ m = "data" /\ id \in DOMAIN data
        \/ m = "change" /\ id \in DOMAIN change
        \/ m = "invalid" /\ id \in DOMAIN invalid}

\* C19: after a load_group call on an ordinary group, the first or a repeated
\* one, every stake of the group is a key of exactly one of data, change and
\* invalid: a virtual stake with a match of change, a virtual stake without a
\* match and a physical stake without a position (after fallback) of invalid,
\* a physical stake with a position of data; and no key of change is a key
\* of data.
C19_StakeInExactlyOneMap ==
    (call.op = "load_group" /\ ~IsRailway(call.args[1].id)) =>
        /\ call.exc = None
        /\ \A k \in 1..Len(LoadedStops) :
            LET v == LoadedStops[k]
            IN  MapsHolding(v.id) =
                    IF IsVirtual(v)
                    THEN IF HasMatch(v, LoadedStops) THEN {"change"} ELSE {"invalid"}
                    ELSE IF HasPosition(v) THEN {"data"} ELSE {"invalid"}
        /\ (DOMAIN change) \cap (DOMAIN data) = {}

\* An ordinary group was loaded again (its name came in already fixed) with an
\* aliased virtual stake and a physical stake with a position
C19_Witness ==
    /\ Called("load_group")
    /\ ~IsRailway(call.args[1].id)
    /\ call.args[1].name = names[call.args[1].id]
    /\ call.args[1].name # normalize_stop_name(<<"r", "o", "n", "d", "o", " ", "A">>)
    /\ \E k \in 1..Len(LoadedStops) : MapsHolding(LoadedStops[k].id) = {"change"}
    /\ \E k \in 1..Len(LoadedStops) : MapsHolding(LoadedStops[k].id) = {"data"}

\* What get_id returns for id in the current state
Resolved(id) == get_id(Self, id).ret

\* C20 as stated: after every load_group call that returns, get_id gives for
\* every stake of the loaded group None or a key of data.
C20_ResolvedIdsHaveRecords ==
    Called("load_group") =>
        \A k \in 1..Len(LoadedStops) :
            Resolved(LoadedStops[k].id) \in {None} \cup DOMAIN data

\* C20 as amended: after every load_group call that returns, get_id gives for
\* every stake of the loaded group None or a key of data, except for the
\* stakes of a multi-platform station that the metadata's stake-to-platform map
\* leaves out, for which it gives the stake's own id, and those the map sends
\* to a platform id not declared under platforms, for which it gives that
\* platform id; neither is a key of data.
C20_ResolvedIdsHaveRecordsButUnmapped ==
    Called("load_group") =>
        \A k \in 1..Len(LoadedStops) :
            LET id      == LoadedStops[k].id
                station == call.args[1].id
                multi   == IsMultiPlatform(station)
            IN  IF multi /\ id \notin DOMAIN rail_platforms[station].stops
                THEN Resolved(id) = id /\ id \notin DOMAIN data
                ELSE IF multi /\ rail_platforms[station].stops[id] \notin DeclaredPlatforms(station)
                THEN /\ Resolved(id) = rail_platforms[station].stops[id]
                     /\ Resolved(id) \notin DOMAIN data
                ELSE Resolved(id) \in {None} \cup DOMAIN data

\* A multi-platform station was loaded with one stake the stake-to-platform map
\* leaves out and one stake it sends to a platform that is not declared
C20_Witness ==
    /\ Called("load_group")
    /\ IsMultiPlatform(call.args[1].id)
    /\ \E k \in 1..Len(LoadedStops) :
            /\ LoadedStops[k].id \notin DOMAIN rail_platforms[call.args[1].id].stops
            /\ Resolved(LoadedStops[k].id) = LoadedStops[k].id
    /\ \E k \in 1..Len(LoadedStops) :
            /\ LoadedStops[k].id \in DOMAIN change
            /\ Resolved(LoadedStops[k].id) \notin {None} \cup DeclaredPlatforms(call.args[1].id)

====
